---------------------------- MODULE Spec2Model ----------------------------
(***************************************************************************)
(* A model of the tmux plugin bridge layer of tmux-plugins-rs              *)
(* (src/src/lib.rs, src/src/tmux.rs): the static plugin descriptor that    *)
(* each registration macro emits, and the four extern "C" callbacks        *)
(* (plugin_format_cb, plugin_format_function_cb, notify_cb, cmd_exec)      *)
(* that the host calls.  The host, its heap (malloc/strdup/free) and the   *)
(* user logic compiled into the plugin are the environment.                *)
(***************************************************************************)
EXTENDS Integers, Sequences, FiniteSets, TLC

(***************************************************************************)
(* Bounds of the model.                                                    *)
(***************************************************************************)
\* longest generic input string the host passes to a format function
MaxLen == 1
\* most returned strings the host keeps before it frees one
MaxOwned == 1
\* most positional arguments of a command ($argsmax of the registration)
MaxArgs == 2
\* most items of a host command queue
MaxQueue == 2

(***************************************************************************)
(* Bytes and strings.  A string is a sequence of bytes without NUL; a      *)
(* buffer is a string followed by its NUL terminator.                      *)
(***************************************************************************)
\* ' ', 'h' and 0xFF, a byte that no UTF-8 text contains
Alphabet == {32, 104, 255}

RECURSIVE StringsUpTo(_)
StringsUpTo(n) ==
    IF n = 0 THEN {<<>>}
    ELSE LET shorter == StringsUpTo(n - 1)
         IN  shorter \cup {Append(s, b) : s \in {t \in shorter : Len(t) = n - 1},
                                          b \in Alphabet}

\* "  hello  ", the input of the trimming example
PaddedHello == <<32, 32, 104, 101, 108, 108, 111, 32, 32>>
\* "hello"
Hello == <<104, 101, 108, 108, 111>>

\* what the host may pass to a format function: every short string, the
\* example, and strings with an invalid byte inside and with inner blanks
FunctionInputs ==
    StringsUpTo(MaxLen) \cup {PaddedHello, <<32, 255, 32>>, <<104, 32, 104, 32>>}

\* "a" and "b", the strings a command's arguments are made of
ArgStrings == {<<97>>, <<98>>}

RECURSIVE ArgLists(_)
ArgLists(n) ==
    IF n = 0 THEN {<<>>}
    ELSE LET shorter == ArgLists(n - 1)
         IN  shorter \cup {Append(l, s) : l \in {t \in shorter : Len(t) = n - 1},
                                          s \in ArgStrings}

\* a NUL-terminated buffer holding string s
CBuffer(s) == Append(s, 0)

(***************************************************************************)
(* Pointers.  A pointer names a segment and an offset in it: the heap      *)
(* (blocks of malloc and of the Rust allocator), the host's string         *)
(* buffers of the current call, the host's objects, the plugin's statics.  *)
(***************************************************************************)
NULL == [seg |-> "null", off |-> 0]
Heap(a) == [seg |-> "heap", off |-> a]
HostBuf(i) == [seg |-> "hbuf", off |-> i]
HostObj(i) == [seg |-> "hostobj", off |-> i]
Static(i) == [seg |-> "static", off |-> i]

\* the byte strings the registrations place in the plugin's static data
StaticStrings ==
    << "my_window_width", "trim", "window-renamed", "session-created",
       "my-command", "mycmd", "[arg ...]", "" >>
StaticOf(name) == Static(CHOOSE i \in 1..Len(StaticStrings) : StaticStrings[i] = name)

\* the host objects a callback is handed
FormatTreePtr == HostObj(1)
FormatEntryPtr == HostObj(2)
NotifyEntryPtr == HostObj(3)
CmdPtr == HostObj(4)
CmdqItemPtr == HostObj(5)

\* heap addresses: room for the strings the host keeps, plus the user
\* logic's buffer and its duplicate during one call
Addr == 1..(MaxOwned + 2)

FreeBlock == [owner |-> "free", bytes |-> <<>>]


(***************************************************************************)
(* C strings in memory.                                                    *)
(***************************************************************************)
\* strlen: the number of bytes before the first NUL of a buffer
strlen(buf) ==
    IF \E i \in 1..Len(buf) : buf[i] = 0
    THEN (CHOOSE i \in 1..Len(buf) : buf[i] = 0 /\ \A j \in 1..(i - 1) : buf[j] # 0) - 1
    ELSE Len(buf)

\* the buffer a pointer refers to
Deref(m, hb, p) ==
    IF p.seg = "heap" THEN m[p.off].bytes
    ELSE IF p.seg = "hbuf" /\ p.off \in 1..Len(hb) THEN hb[p.off]
    ELSE <<>>

\* CStr::from_ptr as it would be if it also validated the text: the view
\* ends at the first byte that is no one-byte character
CStr_from_ptr_checked(m, hb, p) ==
    LET buf == Deref(m, hb, p)
        bad == {i \in 1..Len(buf) : buf[i] = 0 \/ buf[i] >= 128}
    IN  IF bad = {} THEN buf
        ELSE SubSeq(buf, 1, (CHOOSE i \in bad : \A j \in bad : i <= j) - 1)

\* CStr::from_ptr: a borrowed view of the bytes up to the first NUL
CStr_from_ptr(m, hb, p) ==
    LET buf == Deref(m, hb, p) IN SubSeq(buf, 1, strlen(buf))

\* no duplication: the pointer handed on is the one that was given
strdup_alias(m, hb, p, a) ==
    [mem |-> m, ptr |-> p]

\* libc strdup into the unallocated block a: the memory with a malloc block
\* holding a copy of the string at p and its terminator, and the pointer
\* to that block
strdup(m, hb, p, a) ==
    [mem |-> [m EXCEPT ![a] = [owner |-> "malloc",
                               bytes |-> CBuffer(CStr_from_ptr(m, hb, p))]],
     ptr |-> Heap(a)]

\* CString::new: the Rust allocator's block a holding s and its terminator
\* (the caller checks that s holds no NUL)
CString_new(m, s, a) ==
    [m EXCEPT ![a] = [owner |-> "rust", bytes |-> CBuffer(s)]]

\* dropping a CString returns its block to the Rust allocator
drop(m, p) ==
    IF p.seg = "heap" /\ m[p.off].owner = "rust"
    THEN [m EXCEPT ![p.off] = FreeBlock]
    ELSE m

FreeAddrs(m) == {a \in Addr : m[a].owner = "free"}

(***************************************************************************)
(* The plugin descriptor (tmux::plugin) and the registration macros.       *)
(***************************************************************************)
FORMAT_PLUGIN == "FORMAT_PLUGIN"
FORMAT_FUNCTION_PLUGIN == "FORMAT_FUNCTION_PLUGIN"
CMD_PLUGIN == "CMD_PLUGIN"
NOTIFICATION_PLUGIN == "NOTIFICATION_PLUGIN"
MULTI_PLUGIN == "MULTI_PLUGIN"

PluginTypes ==
    {FORMAT_PLUGIN, FORMAT_FUNCTION_PLUGIN, CMD_PLUGIN, NOTIFICATION_PLUGIN, MULTI_PLUGIN}

\* the arms of __plugin! with the cmd arm carrying the notify arm's constant
PluginTypeOf_miscopied(field) ==
    CASE field = "format" -> FORMAT_PLUGIN
      [] field = "function" -> FORMAT_FUNCTION_PLUGIN
      [] field = "notify" -> NOTIFICATION_PLUGIN
      [] field = "cmd" -> NOTIFICATION_PLUGIN

\* the first four arms of __plugin!: the type constant of each union field
PluginTypeOf(field) ==
    CASE field = "format" -> FORMAT_PLUGIN
      [] field = "function" -> FORMAT_FUNCTION_PLUGIN
      [] field = "notify" -> NOTIFICATION_PLUGIN
      [] field = "cmd" -> CMD_PLUGIN

\* the last arm of __plugin!: the module's exported statics, one symbol
\* "plugin" holding the type and the one union field that is written
plugin_static(field, payload) ==
    [plugin |-> [type_ |-> PluginTypeOf(field), field |-> field, payload |-> payload]]

\* format_plugin! leaving the callback of the payload unset
format_plugin_nocb(name) ==
    plugin_static("format", [name |-> name, cb |-> "None"])

\* format_plugin!(name, |ft| body)
format_plugin(name) ==
    plugin_static("format", [name |-> name, cb |-> "plugin_format_cb"])

\* format_function_plugin!(name, |arg| body)
format_function_plugin(name) ==
    plugin_static("function", [name |-> name, cb |-> "plugin_format_function_cb"])

\* notification_plugin!(name, |arg| body)
notification_plugin(name) ==
    plugin_static("notify", [event |-> name, cb |-> "notify_cb"])

\* the one-argument form registering the empty name instead of null
notification_plugin_all_empty ==
    notification_plugin(StaticOf(""))

\* notification_plugin!(|arg| body): every hook event
notification_plugin_all ==
    notification_plugin(NULL)

\* cmd_plugin!(name, alias, usage, argsmin, argsmax, |self, args| body)
cmd_plugin(name, alias, usage, argsmin, argsmax) ==
    plugin_static("cmd",
        [name |-> name, alias |-> alias,
         args |-> [template |-> StaticOf(""), lower |-> argsmin, upper |-> argsmax],
         usage |-> usage,
         source |-> [flag |-> 0, type_ |-> 0, flags |-> 0],
         target |-> [flag |-> 0, type_ |-> 0, flags |-> 0],
         flags |-> 0,
         exec |-> "cmd_exec"])

\* the hook events the host raises
Events == {"window-renamed", "session-created"}

\* the user logic a plugin of each kind is compiled with
Bodies(field) ==
    CASE field = "format" -> {"my_window_width", "faulting"}
      [] field = "function" -> {"trim", "to_owned", "strict"}
      [] field = "notify" -> {"observer", "faulting"}
      [] field = "cmd" -> {"consumer", "faulting"}

\* the macro calls of the model's plugin sources: one per plugin artifact
MacroCall(macro, kind, name) ==
    [macro |-> macro, kind |-> kind, name |-> name]
MacroCalls ==
    {MacroCall("format_plugin", "format", StaticOf("my_window_width")),
     MacroCall("format_function_plugin", "function", StaticOf("trim")),
     MacroCall("notification_plugin_all", "notify", NULL),
     MacroCall("cmd_plugin", "cmd", StaticOf("my-command"))}
    \cup {MacroCall("notification_plugin", "notify", StaticOf(e)) : e \in Events}

\* what a macro call expands to
Expand(c) ==
    CASE c.macro = "format_plugin" -> format_plugin(c.name)
      [] c.macro = "format_function_plugin" -> format_function_plugin(c.name)
      [] c.macro = "notification_plugin_all" -> notification_plugin_all
      [] c.macro = "notification_plugin" -> notification_plugin(c.name)
      [] c.macro = "cmd_plugin" ->
            cmd_plugin(c.name, StaticOf("mycmd"), StaticOf("[arg ...]"), 0, MaxArgs)

\* cmd_retval
CMD_RETURN_ERROR == "CMD_RETURN_ERROR"
CMD_RETURN_NORMAL == "CMD_RETURN_NORMAL"
CMD_RETURN_WAIT == "CMD_RETURN_WAIT"
CMD_RETURN_STOP == "CMD_RETURN_STOP"
cmd_retval == {CMD_RETURN_ERROR, CMD_RETURN_NORMAL, CMD_RETURN_WAIT, CMD_RETURN_STOP}

(***************************************************************************)
(* The user logic of the documentation's examples.                         *)
(***************************************************************************)
\* format!("{}", n) of an unsigned number: its decimal digits
RECURSIVE ToDecimal(_)
ToDecimal(n) ==
    IF n < 10 THEN <<48 + n>> ELSE Append(ToDecimal(n \div 10), 48 + (n % 10))

\* CStr::to_str succeeds on valid UTF-8; of the bytes of the model those
\* below 128 are one-byte characters and 0xFF occurs in no valid text
IsUtf8(s) == \A i \in 1..Len(s) : s[i] < 128

\* char::is_whitespace on one-byte characters
IsSpace(b) == b \in {9, 10, 11, 12, 13, 32}

\* str::trim
RECURSIVE TrimStart(_)
TrimStart(s) ==
    IF s # <<>> /\ IsSpace(Head(s)) THEN TrimStart(Tail(s)) ELSE s
RECURSIVE TrimEnd(_)
TrimEnd(s) ==
    IF s # <<>> /\ IsSpace(s[Len(s)]) THEN TrimEnd(SubSeq(s, 1, Len(s) - 1)) ELSE s
Trim(s) == TrimEnd(TrimStart(s))

\* "Invalid UTF-8 in input"
InvalidUtf8Msg ==
    <<73, 110, 118, 97, 108, 105, 100, 32, 85, 84, 70, 45, 56, 32,
      105, 110, 32, 105, 110, 112, 117, 116>>

Panic == [panic |-> TRUE, bytes |-> <<>>]
Ok(s) == [panic |-> FALSE, bytes |-> s]

\* the body of a format plugin applied to the format tree
FormatLogic(b, tree) ==
    IF b = "my_window_width" THEN Ok(ToDecimal(tree.w.sx)) ELSE Panic

\* the body of a format function plugin applied to the view arg:
\* "trim" is the documentation's example, "to_owned" returns its argument
\* as it is, "strict" is arg.to_str().unwrap() returned as a CString
FunctionLogic(b, arg) ==
    CASE b = "trim" -> IF IsUtf8(arg) THEN Ok(Trim(arg)) ELSE Ok(InvalidUtf8Msg)
      [] b = "to_owned" -> Ok(arg)
      [] b = "strict" -> IF IsUtf8(arg) THEN Ok(arg) ELSE Panic

(***************************************************************************)
(* State.                                                                  *)
(***************************************************************************)
VARIABLES
    macro,     \* the macro call the module's source makes
    exports,   \* the loaded module's exported statics: symbol -> descriptor
    body,      \* the user logic the module was compiled with
    pc,        \* where control is: "host", a bridge's stage, or a fatal end
    mem,       \* the heap: block -> its allocator and bytes
    hbuf,      \* the host's string buffers of the current call
    ft,        \* the host's format tree
    fe,        \* the host's format entry
    args,      \* the host's arguments of the current command
    frame,     \* the locals of the bridge that is running
    ret,       \* what the bridge returned to the host
    owned,     \* the returned strings the host holds and will free
    freeLog,   \* whether the host has freed a string, and whether one of its
               \* frees was handed something malloc did not give
    notified,  \* the hook event raised last and the events delivered
    cmdq,      \* the host's command queue
    trace      \* what happened in the current call (history)

vars == <<macro, exports, body, pc, mem, hbuf, ft, fe, args, frame, ret, owned,
          freeLog, notified, cmdq, trace>>

NoFrame ==
    [args |-> <<>>, return_str |-> NULL, status |-> "none", argc |-> 0, pos |-> 0]
NoRet == [kind |-> "none", ptr |-> NULL, status |-> "none"]
NoArgs == [argc |-> 0, argv |-> <<>>]
NoTree == [w |-> [sx |-> 0]]
NoEntry == [key |-> NULL, value |-> NULL]
NoTrace ==
    [hostArgs |-> <<>>, bodyArgs |-> <<>>, bodyCalls |-> 0, bodyDone |-> FALSE,
     faulted |-> FALSE, userBuf |-> NULL, result |-> <<>>, slot |-> NULL,
     reads |-> {}, items |-> <<>>, ended |-> FALSE, status |-> "none"]

\* the widths of the window the format tree refers to
WindowWidths == {80, 120}

Init ==
    /\ macro \in MacroCalls
    /\ exports = Expand(macro)
    /\ body \in Bodies(macro.kind)
    /\ pc = "host"
    /\ mem = [a \in Addr |-> FreeBlock]
    /\ hbuf = <<>>
    /\ ft = NoTree
    /\ fe = NoEntry
    /\ args = NoArgs
    /\ frame = NoFrame
    /\ ret = NoRet
    /\ owned = {}
    /\ freeLog = [done |-> FALSE, fault |-> FALSE]
    /\ notified = [raised |-> "none", invoked |-> FALSE, delivered |-> {}]
    /\ cmdq = [state |-> "ready", left |-> MaxQueue, last |-> "none"]
    /\ trace = NoTrace

(***************************************************************************)
(* The host.                                                               *)
(***************************************************************************)
\* the callback the host calls: the function pointer of the union member
\* that the descriptor's type names
Callee(d) ==
    CASE d.type_ = FORMAT_PLUGIN /\ d.field = "format" -> d.payload.cb
      [] d.type_ = FORMAT_FUNCTION_PLUGIN /\ d.field = "function" -> d.payload.cb
      [] d.type_ = NOTIFICATION_PLUGIN /\ d.field = "notify" -> d.payload.cb
      [] d.type_ = CMD_PLUGIN /\ d.field = "cmd" -> d.payload.exec
      [] OTHER -> "host_misread"

\* the host expands the plugin's format variable
HostExpandsFormat ==
    /\ pc = "host"
    /\ exports.plugin.type_ = FORMAT_PLUGIN
    /\ Cardinality(FreeAddrs(mem)) >= 2
    /\ \E sx \in WindowWidths, v0 \in {NULL} \cup owned :
          /\ ft' = [w |-> [sx |-> sx]]
          /\ fe' = [key |-> exports.plugin.payload.name, value |-> v0]
          /\ trace' = [NoTrace EXCEPT !.hostArgs = <<FormatTreePtr, FormatEntryPtr>>,
                                      !.slot = v0]
    /\ frame' = [NoFrame EXCEPT !.args = <<FormatTreePtr, FormatEntryPtr>>]
    /\ pc' = Callee(exports.plugin)
    /\ UNCHANGED <<macro, exports, body, mem, hbuf, args, ret, owned, freeLog, notified, cmdq>>

\* the host applies the plugin's format function to a string of its own
HostAppliesFunction ==
    /\ pc = "host"
    /\ exports.plugin.type_ = FORMAT_FUNCTION_PLUGIN
    /\ Cardinality(FreeAddrs(mem)) >= 2
    /\ \E s \in FunctionInputs : hbuf' = <<CBuffer(s)>>
    /\ frame' = [NoFrame EXCEPT !.args = <<HostBuf(1)>>]
    /\ trace' = [NoTrace EXCEPT !.hostArgs = <<HostBuf(1)>>]
    /\ pc' = Callee(exports.plugin)
    /\ UNCHANGED <<macro, exports, body, mem, ft, fe, args, ret, owned, freeLog, notified, cmdq>>

\* whether the host's filter lets event e through to the registration
HostNotifyFilter(d, e) ==
    \/ d.payload.event = NULL
    \/ /\ d.payload.event.seg = "static"
       /\ StaticStrings[d.payload.event.off] = e

\* the host raises a hook event that the plugin is registered for
HostNotifies ==
    /\ pc = "host"
    /\ exports.plugin.type_ = NOTIFICATION_PLUGIN
    /\ \E e \in Events :
          /\ HostNotifyFilter(exports.plugin, e)
          /\ notified' = [notified EXCEPT !.raised = e, !.invoked = FALSE]
    /\ frame' = [NoFrame EXCEPT !.args = <<NotifyEntryPtr>>]
    /\ trace' = [NoTrace EXCEPT !.hostArgs = <<NotifyEntryPtr>>]
    /\ pc' = Callee(exports.plugin)
    /\ UNCHANGED <<macro, exports, body, mem, hbuf, ft, fe, args, ret, owned, freeLog, cmdq>>

\* the host raises a hook event that the plugin is not registered for
HostSkipsNotify ==
    /\ pc = "host"
    /\ exports.plugin.type_ = NOTIFICATION_PLUGIN
    /\ \E e \in Events :
          /\ ~HostNotifyFilter(exports.plugin, e)
          /\ notified' = [notified EXCEPT !.raised = e, !.invoked = FALSE]
    /\ UNCHANGED <<macro, exports, body, pc, mem, hbuf, ft, fe, args, frame, ret, owned,
                   freeLog, cmdq, trace>>

\* the host's command queue fires the plugin's command with arguments
\* whose number is within the registration's bounds
HostFiresCommand ==
    /\ pc = "host"
    /\ exports.plugin.type_ = CMD_PLUGIN
    /\ cmdq.state = "ready"
    /\ cmdq.left > 0
    /\ \E l \in ArgLists(exports.plugin.payload.args.upper) :
          /\ Len(l) >= exports.plugin.payload.args.lower
          /\ hbuf' = [i \in 1..Len(l) |-> CBuffer(l[i])]
          /\ args' = [argc |-> Len(l), argv |-> [i \in 1..Len(l) |-> HostBuf(i)]]
    /\ frame' = [NoFrame EXCEPT !.args = <<CmdPtr, CmdqItemPtr>>]
    /\ trace' = [NoTrace EXCEPT !.hostArgs = <<CmdPtr, CmdqItemPtr>>]
    /\ cmdq' = [cmdq EXCEPT !.last = "none"]
    /\ pc' = Callee(exports.plugin)
    /\ UNCHANGED <<macro, exports, body, mem, ft, fe, ret, owned, freeLog, notified>>

(***************************************************************************)
(* The bridges.  Each is an extern "C" function in three stages: it calls  *)
(* the user logic, the user logic runs, and the bridge finishes with what  *)
(* the user logic returned.                                                *)
(***************************************************************************)
\* the callee of a call: the arguments it was called with
CallBody(tr, bodyArgs) ==
    [tr EXCEPT !.bodyArgs = bodyArgs, !.bodyCalls = @ + 1]

\* a panic of the user logic leaves the extern "C" function by unwinding:
\* the process aborts, or the unwinding runs on into the host's frames
UserLogicPanics ==
    /\ pc' \in {"aborted", "unwound"}
    /\ trace' = [trace EXCEPT !.faulted = TRUE]
    /\ UNCHANGED <<macro, exports, body, mem, hbuf, ft, fe, args, frame, ret, owned,
                   freeLog, notified, cmdq>>

\* the user logic returns the string s as a CString of its own
UserLogicReturns(s, next) ==
    /\ \E a \in FreeAddrs(mem) :
          /\ mem' = CString_new(mem, s, a)
          /\ frame' = [frame EXCEPT !.return_str = Heap(a)]
          /\ trace' = [trace EXCEPT !.bodyDone = TRUE, !.userBuf = Heap(a), !.result = s]
    /\ pc' = next
    /\ UNCHANGED <<macro, exports, body, hbuf, ft, fe, args, ret, owned, freeLog,
                   notified, cmdq>>

\* the format tree a pointer refers to
DerefTree(p) == IF p = FormatTreePtr THEN ft ELSE NoTree

\* plugin_format_cb calls format_plugin_body($ft, fe)
plugin_format_cb_enter ==
    /\ pc = "plugin_format_cb"
    /\ trace' = CallBody(trace, frame.args)
    /\ pc' = "format_plugin_body"
    /\ UNCHANGED <<macro, exports, body, mem, hbuf, ft, fe, args, frame, ret, owned,
                   freeLog, notified, cmdq>>

format_plugin_body ==
    /\ pc = "format_plugin_body"
    /\ LET r == FormatLogic(body, DerefTree(trace.bodyArgs[1]))
       IN  IF r.panic THEN UserLogicPanics
           ELSE UserLogicReturns(r.bytes, "plugin_format_cb_return")

\* plugin_format_cb freeing the value the entry held before it stores the
\* duplicate
plugin_format_cb_return_freeing ==
    /\ pc = "plugin_format_cb_return"
    /\ \E a \in FreeAddrs(mem) :
          LET dup == strdup(mem, hbuf, frame.return_str, a)
              kept == drop(dup.mem, frame.return_str)
          IN  /\ mem' = IF fe.value.seg = "heap"
                        THEN [kept EXCEPT ![fe.value.off] = FreeBlock]
                        ELSE kept
              /\ fe' = [fe EXCEPT !.value = dup.ptr]
    /\ ret' = [NoRet EXCEPT !.kind = "void"]
    /\ frame' = NoFrame
    /\ pc' = "returned"
    /\ UNCHANGED <<macro, exports, body, hbuf, ft, args, owned, freeLog, notified,
                   cmdq, trace>>

\* plugin_format_cb duplicates the result, stores the duplicate in the
\* entry's value and returns; the result is dropped
plugin_format_cb_return ==
    /\ pc = "plugin_format_cb_return"
    /\ \E a \in FreeAddrs(mem) :
          LET dup == strdup(mem, hbuf, frame.return_str, a)
          IN  /\ mem' = drop(dup.mem, frame.return_str)
              /\ fe' = [fe EXCEPT !.value = dup.ptr]
    /\ ret' = [NoRet EXCEPT !.kind = "void"]
    /\ frame' = NoFrame
    /\ pc' = "returned"
    /\ UNCHANGED <<macro, exports, body, hbuf, ft, args, owned, freeLog, notified,
                   cmdq, trace>>

\* plugin_format_function_cb makes the view CStr::from_ptr($arg) and calls
\* format_function_plugin_body(argument)
plugin_format_function_cb_enter ==
    /\ pc = "plugin_format_function_cb"
    /\ trace' = CallBody(trace, <<frame.args[1]>>)
    /\ pc' = "format_function_plugin_body"
    /\ UNCHANGED <<macro, exports, body, mem, hbuf, ft, fe, args, frame, ret, owned,
                   freeLog, notified, cmdq>>

format_function_plugin_body ==
    /\ pc = "format_function_plugin_body"
    /\ LET r == FunctionLogic(body, CStr_from_ptr(mem, hbuf, trace.bodyArgs[1]))
       IN  IF r.panic THEN UserLogicPanics
           ELSE UserLogicReturns(r.bytes, "plugin_format_function_cb_return")

\* plugin_format_function_cb returns the duplicate of the result; the
\* result is dropped
plugin_format_function_cb_return ==
    /\ pc = "plugin_format_function_cb_return"
    /\ \E a \in FreeAddrs(mem) :
          LET dup == strdup(mem, hbuf, frame.return_str, a)
          IN  /\ mem' = drop(dup.mem, frame.return_str)
              /\ ret' = [NoRet EXCEPT !.kind = "ptr", !.ptr = dup.ptr]
    /\ frame' = NoFrame
    /\ pc' = "returned"
    /\ UNCHANGED <<macro, exports, body, hbuf, ft, fe, args, owned, freeLog, notified,
                   cmdq, trace>>

\* notify_cb calls notify_plugin_body($arg)
notify_cb_enter ==
    /\ pc = "notify_cb"
    /\ trace' = CallBody(trace, frame.args)
    /\ pc' = "notify_plugin_body"
    /\ UNCHANGED <<macro, exports, body, mem, hbuf, ft, fe, args, frame, ret, owned,
                   freeLog, notified, cmdq>>

notify_plugin_body ==
    /\ pc = "notify_plugin_body"
    /\ IF body = "faulting" THEN UserLogicPanics
       ELSE /\ notified' = [notified EXCEPT !.invoked = TRUE,
                                            !.delivered = @ \cup {notified.raised}]
            /\ trace' = [trace EXCEPT !.bodyDone = TRUE]
            /\ pc' = "notify_cb_return"
            /\ UNCHANGED <<macro, exports, body, mem, hbuf, ft, fe, args, frame, ret,
                           owned, freeLog, cmdq>>

\* notify_cb returns
notify_cb_return ==
    /\ pc = "notify_cb_return"
    /\ ret' = [NoRet EXCEPT !.kind = "void"]
    /\ frame' = NoFrame
    /\ pc' = "returned"
    /\ UNCHANGED <<macro, exports, body, mem, hbuf, ft, fe, args, owned, freeLog,
                   notified, cmdq, trace>>

\* cmd_exec collecting the views of all arguments before it calls the body
cmd_exec_enter_collect ==
    /\ pc = "cmd_exec"
    /\ frame' = [frame EXCEPT !.argc = args.argc, !.pos = 0]
    /\ trace' = [CallBody(trace, <<frame.args[1]>>) EXCEPT !.reads = 1..args.argc]
    /\ pc' = "cmd_plugin_body"
    /\ UNCHANGED <<macro, exports, body, mem, hbuf, ft, fe, args, ret, owned, freeLog,
                   notified, cmdq>>

\* cmd_exec handing the body the queue item in place of the command
cmd_exec_enter_item ==
    /\ pc = "cmd_exec"
    /\ frame' = [frame EXCEPT !.argc = args.argc, !.pos = 0]
    /\ trace' = CallBody(trace, <<frame.args[2]>>)
    /\ pc' = "cmd_plugin_body"
    /\ UNCHANGED <<macro, exports, body, mem, hbuf, ft, fe, args, ret, owned, freeLog,
                   notified, cmdq>>

\* cmd_exec copies the argument structure, makes the slice of argc
\* pointers and the lazy map over it, and calls cmd_plugin_body($self, argv)
cmd_exec_enter ==
    /\ pc = "cmd_exec"
    /\ frame' = [frame EXCEPT !.argc = args.argc, !.pos = 0]
    /\ trace' = CallBody(trace, <<frame.args[1]>>)
    /\ pc' = "cmd_plugin_body"
    /\ UNCHANGED <<macro, exports, body, mem, hbuf, ft, fe, args, ret, owned, freeLog,
                   notified, cmdq>>

\* the user logic asks the argument iterator for its next item: the next
\* pointer of the slice, mapped to a view of its string, or the end
args_next ==
    /\ pc = "cmd_plugin_body"
    /\ ~trace.ended
    /\ IF frame.pos < frame.argc
       THEN /\ frame' = [frame EXCEPT !.pos = @ + 1]
            /\ trace' = [trace EXCEPT
                            !.reads = @ \cup {frame.pos + 1},
                            !.items = Append(@, CStr_from_ptr(mem, hbuf,
                                                              args.argv[frame.pos + 1]))]
       ELSE /\ trace' = [trace EXCEPT !.ended = TRUE]
            /\ frame' = frame
    /\ UNCHANGED <<macro, exports, body, pc, mem, hbuf, ft, fe, args, ret, owned,
                   freeLog, notified, cmdq>>

\* the user logic of a command ends with a status, or panics
cmd_plugin_body ==
    /\ pc = "cmd_plugin_body"
    /\ \/ \E st \in cmd_retval :
             /\ frame' = [frame EXCEPT !.status = st]
             /\ trace' = [trace EXCEPT !.bodyDone = TRUE, !.status = st]
             /\ pc' = "cmd_exec_return"
             /\ UNCHANGED <<macro, exports, body, mem, hbuf, ft, fe, args, ret, owned,
                            freeLog, notified, cmdq>>
       \/ /\ body = "faulting"
          /\ UserLogicPanics

\* cmd_exec returning CMD_RETURN_NORMAL whatever the body returned
cmd_exec_return_normal ==
    /\ pc = "cmd_exec_return"
    /\ ret' = [NoRet EXCEPT !.kind = "status", !.status = CMD_RETURN_NORMAL]
    /\ frame' = NoFrame
    /\ pc' = "returned"
    /\ UNCHANGED <<macro, exports, body, mem, hbuf, ft, fe, args, owned, freeLog,
                   notified, cmdq, trace>>

\* cmd_exec returns what cmd_plugin_body returned
cmd_exec_return ==
    /\ pc = "cmd_exec_return"
    /\ ret' = [NoRet EXCEPT !.kind = "status", !.status = frame.status]
    /\ frame' = NoFrame
    /\ pc' = "returned"
    /\ UNCHANGED <<macro, exports, body, mem, hbuf, ft, fe, args, owned, freeLog,
                   notified, cmdq, trace>>

(***************************************************************************)
(* The host after a bridge has returned.                                   *)
(***************************************************************************)
\* the host takes the value of the format entry as a string of its own
HostTakesFormatValue ==
    /\ pc = "returned"
    /\ exports.plugin.type_ = FORMAT_PLUGIN
    /\ owned' = owned \cup {fe.value}
    /\ fe' = NoEntry
    /\ ft' = NoTree
    /\ ret' = NoRet
    /\ trace' = NoTrace
    /\ pc' = "host"
    /\ UNCHANGED <<macro, exports, body, mem, hbuf, args, frame, freeLog, notified, cmdq>>

\* the host takes the string a format function returned
HostTakesFunctionResult ==
    /\ pc = "returned"
    /\ exports.plugin.type_ = FORMAT_FUNCTION_PLUGIN
    /\ owned' = owned \cup {ret.ptr}
    /\ hbuf' = <<>>
    /\ ret' = NoRet
    /\ trace' = NoTrace
    /\ pc' = "host"
    /\ UNCHANGED <<macro, exports, body, mem, ft, fe, args, frame, freeLog, notified, cmdq>>

\* the host goes on after a notification
HostNotified ==
    /\ pc = "returned"
    /\ exports.plugin.type_ = NOTIFICATION_PLUGIN
    /\ ret' = NoRet
    /\ trace' = NoTrace
    /\ pc' = "host"
    /\ UNCHANGED <<macro, exports, body, mem, hbuf, ft, fe, args, frame, owned, freeLog,
                   notified, cmdq>>

\* the command queue after an item returned status st: NORMAL goes on to
\* the next item, ERROR reports the failure and goes on, WAIT parks the
\* item, STOP halts the queue
CmdqAfter(q, st) ==
    CASE st = CMD_RETURN_NORMAL -> [state |-> "ready", left |-> q.left - 1, last |-> st]
      [] st = CMD_RETURN_ERROR -> [state |-> "ready", left |-> q.left - 1, last |-> st]
      [] st = CMD_RETURN_WAIT -> [state |-> "parked", left |-> q.left, last |-> st]
      [] st = CMD_RETURN_STOP -> [state |-> "halted", left |-> q.left, last |-> st]
      [] OTHER -> [state |-> "corrupt", left |-> q.left, last |-> st]

\* the host's command queue consumes the status of the command
HostCmdqContinues ==
    /\ pc = "returned"
    /\ exports.plugin.type_ = CMD_PLUGIN
    /\ cmdq' = CmdqAfter(cmdq, ret.status)
    /\ hbuf' = <<>>
    /\ args' = NoArgs
    /\ ret' = NoRet
    /\ trace' = NoTrace
    /\ pc' = "host"
    /\ UNCHANGED <<macro, exports, body, mem, ft, fe, frame, owned, freeLog, notified>>

\* what a parked item waited for completes
HostCmdqWakes ==
    /\ pc = "host"
    /\ cmdq.state = "parked"
    /\ cmdq' = [state |-> "ready", left |-> cmdq.left - 1, last |-> "none"]
    /\ UNCHANGED <<macro, exports, body, pc, mem, hbuf, ft, fe, args, frame, ret, owned,
                   freeLog, notified, trace>>

\* the host starts a new command queue
HostCmdqRestarts ==
    /\ pc = "host"
    /\ exports.plugin.type_ = CMD_PLUGIN
    /\ cmdq.state = "halted" \/ cmdq.left = 0
    /\ \E n \in 1..MaxQueue : cmdq' = [state |-> "ready", left |-> n, last |-> "none"]
    /\ UNCHANGED <<macro, exports, body, pc, mem, hbuf, ft, fe, args, frame, ret, owned,
                   freeLog, notified, trace>>

\* libc free of pointer p: a block of malloc is released, anything else
\* corrupts the heap
free(m, p) ==
    IF p.seg = "heap" /\ m[p.off].owner = "malloc"
    THEN [mem |-> [m EXCEPT ![p.off] = FreeBlock], fault |-> FALSE]
    ELSE [mem |-> m, fault |-> TRUE]

\* the host frees a string it holds
HostFrees ==
    /\ pc = "host"
    /\ \E p \in owned :
          /\ mem' = free(mem, p).mem
          /\ freeLog' = [done |-> TRUE, fault |-> freeLog.fault \/ free(mem, p).fault]
          /\ owned' = owned \ {p}
    /\ UNCHANGED <<macro, exports, body, pc, hbuf, ft, fe, args, frame, ret, notified,
                   cmdq, trace>>

Next ==
    \/ HostExpandsFormat
    \/ plugin_format_cb_enter
    \/ format_plugin_body
    \/ plugin_format_cb_return
    \/ HostTakesFormatValue
    \/ HostAppliesFunction
    \/ plugin_format_function_cb_enter
    \/ format_function_plugin_body
    \/ plugin_format_function_cb_return
    \/ HostTakesFunctionResult
    \/ HostNotifies
    \/ HostSkipsNotify
    \/ notify_cb_enter
    \/ notify_plugin_body
    \/ notify_cb_return
    \/ HostNotified
    \/ HostFiresCommand
    \/ cmd_exec_enter
    \/ args_next
    \/ cmd_plugin_body
    \/ cmd_exec_return
    \/ HostCmdqContinues
    \/ HostCmdqWakes
    \/ HostCmdqRestarts
    \/ HostFrees

Spec == Init /\ [][Next]_vars

(***************************************************************************)
(* Properties.                                                             *)
(***************************************************************************)
\* the string the host's buffer i holds, without its terminator
HostString(i) == SubSeq(hbuf[i], 1, Len(hbuf[i]) - 1)

\* the pointer a format or function bridge handed to the host
Handed == IF macro.kind = "format" THEN fe.value ELSE ret.ptr

\* whether p is a live block of malloc
LiveMalloc(p) == p.seg = "heap" /\ mem[p.off].owner = "malloc"

\* C1: the descriptor each registration macro emits carries the type of
\* its kind and has written the union field of that kind, with that
\* field's payload; its type is one of the four kinds.
C1_TagMatchesPayload ==
    LET d == exports.plugin
    IN  /\ d.type_ \in {FORMAT_PLUGIN, FORMAT_FUNCTION_PLUGIN, NOTIFICATION_PLUGIN,
                        CMD_PLUGIN}
        /\ macro.kind = "format" =>
              d.type_ = FORMAT_PLUGIN /\ d.field = "format"
              /\ DOMAIN d.payload = {"name", "cb"}
        /\ macro.kind = "function" =>
              d.type_ = FORMAT_FUNCTION_PLUGIN /\ d.field = "function"
              /\ DOMAIN d.payload = {"name", "cb"}
        /\ macro.kind = "notify" =>
              d.type_ = NOTIFICATION_PLUGIN /\ d.field = "notify"
              /\ DOMAIN d.payload = {"event", "cb"}
        /\ macro.kind = "cmd" =>
              d.type_ = CMD_PLUGIN /\ d.field = "cmd"
              /\ "exec" \in DOMAIN d.payload

\* a command plugin whose bridge the host has called through the payload
\* its type names
C1_Witness ==
    /\ macro.kind = "cmd"
    /\ exports.plugin.type_ = CMD_PLUGIN
    /\ pc = "cmd_exec"

\* C2: a fault of the user logic never leaves the bridge: the bridge
\* returns to the host with the fallback of its kind (an empty string, no
\* effect, the ERROR status).
C2_FaultContained ==
    trace.faulted =>
        /\ pc = "returned"
        /\ macro.kind \in {"format", "function"} =>
              LiveMalloc(Handed) /\ mem[Handed.off].bytes = CBuffer(<<>>)
        /\ macro.kind = "cmd" => ret.status = CMD_RETURN_ERROR

C4_ArgumentSequence ==
    (macro.kind = "cmd" /\ pc \in {"cmd_plugin_body", "cmd_exec_return", "returned"}) =>
        /\ Len(trace.items) <= args.argc
        /\ \A i \in 1..Len(trace.items) : trace.items[i] = HostString(args.argv[i].off)
        /\ trace.reads = 1..Len(trace.items)
        /\ trace.ended => Len(trace.items) = args.argc
        /\ (trace.ended /\ hbuf = <<CBuffer(<<97>>), CBuffer(<<98>>)>>) =>
              trace.items = << <<97>>, <<98>> >>

\* the user logic has consumed the arguments "a", "b" to the end
C4_Witness ==
    /\ macro.kind = "cmd"
    /\ hbuf = <<CBuffer(<<97>>), CBuffer(<<98>>)>>
    /\ trace.ended
    /\ trace.items = << <<97>>, <<98>> >>

\* C5: the status the command bridge returns is one of the four values
\* of cmd_retval and is the one the user logic produced; in the host's
\* queue NORMAL goes on to the next item, WAIT parks the item, STOP halts
\* the queue and ERROR is recorded as a failure, and a parked or halted
\* queue fires no command.
C5_StatusSteersQueue ==
    /\ []((macro.kind = "cmd" /\ pc = "returned") =>
             ret.status \in cmd_retval /\ ret.status = trace.status)
    /\ [][(macro.kind = "cmd" /\ pc = "returned" /\ pc' = "host") =>
             /\ cmdq'.last = trace.status
             /\ trace.status = CMD_RETURN_NORMAL =>
                   cmdq'.state = "ready" /\ cmdq'.left = cmdq.left - 1
             /\ trace.status = CMD_RETURN_ERROR => cmdq'.state # "corrupt"
             /\ trace.status = CMD_RETURN_WAIT =>
                   cmdq'.state = "parked" /\ cmdq'.left = cmdq.left
             /\ trace.status = CMD_RETURN_STOP =>
                   cmdq'.state = "halted" /\ cmdq'.left = cmdq.left]_vars
    /\ [][(cmdq.state \in {"parked", "halted"}) => pc' # "cmd_exec"]_vars

\* the user logic returned WAIT and the host has parked the item
C5_Witness ==
    /\ macro.kind = "cmd"
    /\ pc = "host"
    /\ cmdq.state = "parked"
    /\ cmdq.last = CMD_RETURN_WAIT

\* C6: the one-argument registration emits a null event and its user
\* logic has run for every event the host has raised; the named
\* registration emits the given name and its user logic has run for
\* events of that name only.
C6_NotifyVariants ==
    LET d == exports.plugin
    IN  /\ macro.macro = "notification_plugin_all" =>
              /\ d.payload.event = NULL
              /\ (pc = "host" /\ notified.raised # "none") =>
                    notified.invoked /\ notified.raised \in notified.delivered
        /\ macro.macro = "notification_plugin" =>
              /\ d.payload.event = macro.name
              /\ d.payload.event # NULL
              /\ notified.delivered \subseteq {StaticStrings[macro.name.off]}
              /\ (pc = "host" /\ notified.raised = StaticStrings[macro.name.off]) =>
                    notified.invoked
              /\ (pc = "host" /\ notified.raised # StaticStrings[macro.name.off]) =>
                    ~notified.invoked

\* the user logic of a one-argument registration has run for both events
C6_Witness ==
    /\ macro.macro = "notification_plugin_all"
    /\ notified.delivered = {"window-renamed", "session-created"}

\* C7: the string the function bridge returns is the user logic's result
\* on exactly the bytes of the host's string, valid UTF-8 or not; the
\* trimming example turns "  hello  " into "hello" and reports the
\* fallback string on invalid input, and never faults.
C7_FunctionTransparent ==
    macro.kind = "function" =>
        /\ pc = "returned" =>
              /\ LiveMalloc(ret.ptr)
              /\ mem[ret.ptr.off].bytes =
                    CBuffer(FunctionLogic(body, HostString(1)).bytes)
              /\ (body = "trim" /\ HostString(1) = PaddedHello) =>
                    mem[ret.ptr.off].bytes = CBuffer(Hello)
              /\ (body = "trim" /\ \E i \in 1..Len(HostString(1)) : HostString(1)[i] = 255) =>
                    mem[ret.ptr.off].bytes = CBuffer(InvalidUtf8Msg)
              /\ (body = "to_owned") => mem[ret.ptr.off].bytes = hbuf[1]
        /\ body = "trim" => ~trace.faulted

\* the trimming example has returned "hello" for "  hello  "
C7_Witness ==
    /\ macro.kind = "function"
    /\ body = "trim"
    /\ pc = "returned"
    /\ hbuf = <<CBuffer(PaddedHello)>>
    /\ mem[ret.ptr.off].bytes = CBuffer(Hello)

\* C8: the module exports one descriptor, under the symbol "plugin"; its
\* type, its names and its callback are set from the start, and no step
\* of a bridge or of the host changes it.
C8_DescriptorStable ==
    /\ [](LET d == exports.plugin
          IN  /\ DOMAIN exports = {"plugin"}
              /\ d.type_ \in PluginTypes
              /\ d.field \in {"format", "function"} =>
                    d.payload.name # NULL /\ d.payload.cb # "None"
              /\ d.field = "notify" => d.payload.cb # "None"
              /\ d.field = "cmd" =>
                    /\ d.payload.name # NULL
                    /\ d.payload.usage # NULL
                    /\ d.payload.exec # "None"
              /\ exports = Expand(macro))
    /\ [][exports' = exports]_vars

\* a format bridge has run and returned under the descriptor of the start
C8_Witness ==
    /\ pc = "returned"
    /\ macro.kind = "format"
    /\ exports.plugin.payload.cb = "plugin_format_cb"

\* C9: a bridge that has returned has called the user logic once, with
\* the pointers the host gave it, and the user logic had finished; a
\* bridge that is not running holds nothing of the call; what a format
\* bridge stores is the result for the tree of this call, whatever the
\* earlier calls were.
C9_SingleShot ==
    /\ pc = "returned" =>
          /\ trace.bodyCalls = 1
          /\ trace.bodyDone
          /\ macro.kind = "format" => trace.bodyArgs = <<FormatTreePtr, FormatEntryPtr>>
          /\ macro.kind = "function" => trace.bodyArgs = <<HostBuf(1)>>
          /\ macro.kind = "notify" => trace.bodyArgs = <<NotifyEntryPtr>>
          /\ macro.kind = "cmd" => trace.bodyArgs = <<CmdPtr>>
          /\ (macro.kind = "format" /\ fe.value.seg = "heap") =>
                mem[fe.value.off].bytes = CBuffer(ToDecimal(ft.w.sx))
    /\ pc \in {"returned", "host"} => frame = NoFrame
    /\ trace.bodyCalls <= 1

\* a command bridge has returned to a host whose queue it ran in before
C9_Witness ==
    /\ pc = "returned"
    /\ macro.kind = "cmd"
    /\ trace.bodyCalls = 1
    /\ cmdq.left < MaxQueue

\* C10: the steps of the format bridge itself leave the format tree and
\* the key of the entry as they were; its last step stores a new pointer
\* in the value slot and neither frees nor changes the block the slot
\* pointed to before, and changes nothing else of the host.
C10_FormatFrame ==
    [][(pc \in {"plugin_format_cb", "plugin_format_cb_return"}) =>
          /\ ft' = ft
          /\ fe'.key = fe.key
          /\ <<hbuf', args', owned', freeLog', notified', cmdq', exports'>>
                = <<hbuf, args, owned, freeLog, notified, cmdq, exports>>
          /\ pc = "plugin_format_cb" => fe' = fe /\ mem' = mem
          /\ pc = "plugin_format_cb_return" =>
                /\ fe'.value # fe.value
                /\ fe'.value.seg = "heap"
                /\ mem[fe'.value.off].owner = "free"
                /\ mem'[fe'.value.off].owner = "malloc"
                /\ fe.value.seg = "heap" => mem'[fe.value.off] = mem[fe.value.off]
                /\ \A a \in Addr :
                      a \notin {fe'.value.off, frame.return_str.off} => mem'[a] = mem[a]]_vars

\* the format bridge has stored its string over a value that the slot
\* held, and that value is still allocated
C10_Witness ==
    /\ pc = "returned"
    /\ macro.kind = "format"
    /\ trace.slot # NULL
    /\ fe.value # trace.slot
    /\ LiveMalloc(trace.slot)
    /\ LiveMalloc(fe.value)

=============================================================================
